---- MODULE Spec2Model ----
(***************************************************************************)
(* Stock monitor (twsx): the quote poller of stock-monitor/src/App.vue     *)
(* talking to the backend's POST /api/stock-data handler, and the chart    *)
(* pipeline (backend /api/stock-yearly and the front end's renderChart).   *)
(*                                                                         *)
(* Strings that carry numbers are modelled by what the code does to them:  *)
(* a cell is a record [k, v] where k names the shape of the string         *)
(* ("dec" a toFixed(2) decimal, "pct" a toFixed(2) percentage with "%",    *)
(* "N/A" the sentinel, "NaN" the text NaN, "undefined" an absent field)    *)
(* and v is the number in hundredths.                                      *)
(***************************************************************************)
EXTENDS Integers, Sequences, FiniteSets, TLC

VARIABLES
    mounted,        \* App.vue: onMounted has run (the 5 s interval is armed)
    trackedStocks,  \* App.vue:19   ref<string[]>
    stockData,      \* App.vue:20   ref<{[key]: StockData}>
    inflight,       \* fetchStockData calls awaiting their POST /api/stock-data response
    poll,           \* locals of the fetchStockData call that completed last
    selectedStockCode,       \* App.vue:30   ref<string | null>
    isChartModalVisible,     \* App.vue:29   ref(false)
    chartDataType,           \* App.vue:37   ref<'monthly' | 'yearly'>
    stockMonthlyData,        \* App.vue:33   ref<any>(null)
    stockYearlyData,         \* App.vue:34   ref<any>(null)
    isMonthlyDataIncomplete, \* App.vue:35   ref(false)
    stockChartInstance,      \* App.vue:36   the series of the Chart drawn, or null
    chartInflight,  \* chart handlers awaiting their GET /api/stock-monthly|yearly response
    chartLog,        \* what the chart handler that ran last fetched and logged
    serverStockData,  \* part_002:859  let stockData = {} (the backend's tracked codes and their data)
    serverInflight,   \* requests of the backend awaiting axios.get or fs.writeFile
    serverReply,      \* the handler that ran last and the status it answered
    lastFetchTime,    \* App.vue:22   ref<string | null>(null), the sysTime displayed
    stockDataReq,     \* part_002:154  req.body.stockCodes of the POST /api/stock-data awaiting axios.get
    stockDataRes,     \* part_002:242  the msgArray received last and the results answered for it
    retry             \* utils/api.ts:2  the retryFetch call in progress: its position, arguments and attempts

pollVars == <<mounted, trackedStocks, stockData, inflight, poll, lastFetchTime>>

chartVars == <<selectedStockCode, isChartModalVisible, chartDataType,
               stockMonthlyData, stockYearlyData, isMonthlyDataIncomplete,
               stockChartInstance, chartInflight, chartLog>>

backendVars == <<serverStockData, serverInflight, serverReply>>

\* What the handlers of App.vue leave alone
\* POST /api/stock-data on its own, first revision of the server
keyVars == <<stockDataReq, stockDataRes>>

\* utils/api.ts
apiVars == <<retry>>

outsideApp == <<backendVars, keyVars, apiVars>>

vars == <<pollVars, chartVars, outsideApp>>

----------------------------------------------------------------------------
(* Bounds *)

MaxInFlight == 2

\* Rows of one upstream STOCK_DAY answer.
MaxRows == 2

\* Months the yearly endpoint asks for (the code asks for 12).
MonthsBack == 2

\* Largest retries argument of a retryFetch call (the default is 3)
MaxRetries == 3

----------------------------------------------------------------------------
(* Strings *)

Codes == {"2330", "2881"}

\* a.includes(b) on stock codes: "2881A" (a preferred share) contains "2881"
Includes(a, b) == a = b \/ (a = "2881A" /\ b = "2881")

NA        == [k |-> "N/A", v |-> 0]
Undefined == [k |-> "undefined", v |-> 0]
NaNStr    == [k |-> "NaN", v |-> 0]
Dec(n)    == [k |-> "dec", v |-> n]
Pct(n)    == [k |-> "pct", v |-> n]

\* Fields z and y of an upstream msgArray entry: a numeric string, the dash
\* the exchange sends when there is no trade yet, or no field at all.
RawNum(n) == [k |-> "raw", v |-> n]
RawDash   == [k |-> "-", v |-> 0]
RawAbsent == [k |-> "undefined", v |-> 0]

\* The feed of the model: last price z is a dash or 600.00; yesterday's close
\* y of 2330 is missing, 0, 590.00 or (the next day) 595.00, and the close of
\* 2881 stays at 590.00.
RawZ == {RawDash, RawNum(60000)}
RawY == {RawAbsent, RawNum(0), RawNum(59000), RawNum(59500)}
RawYOf(code) == IF code = "2330" THEN RawY ELSE {RawNum(59000)}

\* parseFloat: a number (in hundredths) or NaN
NaN == [nan |-> TRUE, n |-> 0]
Num(n) == [nan |-> FALSE, n |-> n]
parseFloat(s) == IF s.k \in {"raw", "dec"} THEN Num(s.v) ELSE NaN
isNaN(x) == x.nan

\* JavaScript truthiness of a string-or-undefined field
Truthy(s) == s.k # "undefined"

Abs(n) == IF n < 0 THEN -n ELSE n

\* Number.prototype.toFixed(2) of the quotient a/b (b > 0), in hundredths:
\* the nearest integer, the larger magnitude on a tie, sign kept.
RoundDiv(a, b) ==
    LET q == (2 * Abs(a) + b) \div (2 * b)
    IN  IF a < 0 THEN -q ELSE q

\* x.toFixed(2) of a parsed number (NaN prints as "NaN")
toFixed2(x) == IF x.nan THEN NaNStr ELSE Dec(x.n)

----------------------------------------------------------------------------
(* Backend, POST /api/stock-data (server, first revision) *)

\* One msgArray entry of the exchange's answer: code c, last price z,
\* yesterday's close y.
StockInfos == [c : Codes, z : RawZ, y : RawY]

\* Mutant of Quote: || for && in the test that both prices parsed.
Quote_EitherParsed(stockInfo) ==
    LET latestPrice    == parseFloat(stockInfo.z)
        yesterdayClose == parseFloat(stockInfo.y)
        either         == ~isNaN(latestPrice) \/ ~isNaN(yesterdayClose)
    IN  [ Code             |-> stockInfo.c,
          InstantPrice     |-> IF isNaN(latestPrice) THEN NA ELSE toFixed2(latestPrice),
          PriceChange      |-> IF either THEN Dec(latestPrice.n - yesterdayClose.n) ELSE NA,
          ChangePercentage |->
              IF either /\ yesterdayClose.n # 0
              THEN Pct(RoundDiv(10000 * (latestPrice.n - yesterdayClose.n), yesterdayClose.n))
              ELSE NA,
          YesterdayClose   |-> IF Truthy(stockInfo.y)
                               THEN toFixed2(parseFloat(stockInfo.y)) ELSE NA ]

\* The quote the handler builds from one msgArray entry.
Quote(stockInfo) ==
    LET latestPrice    == parseFloat(stockInfo.z)
        yesterdayClose == parseFloat(stockInfo.y)
        both           == ~isNaN(latestPrice) /\ ~isNaN(yesterdayClose)
        priceChange    == IF both THEN Dec(latestPrice.n - yesterdayClose.n) ELSE NA
        changePercentage ==
            IF both /\ yesterdayClose.n # 0
            THEN Pct(RoundDiv(10000 * (latestPrice.n - yesterdayClose.n), yesterdayClose.n))
            ELSE NA
    IN  [ Code             |-> stockInfo.c,
          InstantPrice     |-> IF isNaN(latestPrice) THEN NA ELSE toFixed2(latestPrice),
          PriceChange      |-> priceChange,
          ChangePercentage |-> changePercentage,
          YesterdayClose   |-> IF Truthy(stockInfo.y)
                               THEN toFixed2(parseFloat(stockInfo.y)) ELSE NA ]

\* results[code] = { error: ... }: none of the quote fields is present.
ErrorItem ==
    [ Code |-> "", InstantPrice |-> Undefined, PriceChange |-> Undefined,
      ChangePercentage |-> Undefined, YesterdayClose |-> Undefined ]

EmptyObject == [c \in {} |-> ErrorItem]

Range(seq) == {seq[i] : i \in 1..Len(seq)}

\* stockCodes.find(sc => sc.includes(code) || codeWithPrefix.includes(sc)),
\* "" when nothing matches.
RECURSIVE Find(_, _)
Find(stockCodes, code) ==
    IF stockCodes = <<>> THEN ""
    ELSE IF Includes(Head(stockCodes), code) \/ Includes(code, Head(stockCodes))
         THEN Head(stockCodes)
         ELSE Find(Tail(stockCodes), code)

ResultKey(stockCodes, code) ==
    LET originalCode == Find(stockCodes, code)
    IN  IF originalCode # "" THEN originalCode ELSE code

Put(obj, key, val) ==
    [c \in DOMAIN obj \cup {key} |-> IF c = key THEN val ELSE obj[c]]

\* apiData.msgArray.forEach(...): later entries overwrite earlier ones that
\* land on the same key.
RECURSIVE Results(_, _, _)
Results(stockCodes, msgArray, results) ==
    IF msgArray = <<>> THEN results
    ELSE Results(stockCodes, Tail(msgArray),
                 Put(results, ResultKey(stockCodes, Head(msgArray).c), Quote(Head(msgArray))))

\* sysTime: apiData.sysTime || null; the exchange stamps the answers that
\* carry a msgArray
NullTime == "null"
SysTime == "13:30:00"

\* The body of the 200 answer; the 500 answer (axios threw) carries no quotes
\* the front end reads.
StockDataResponse(stockCodes, apiData) ==
    [ ok       |-> apiData.kind # "throw",
      sysTime  |-> IF apiData.kind = "msgArray" THEN SysTime ELSE NullTime,
      stockData |->
        IF apiData.kind = "msgArray"
        THEN Results(stockCodes, apiData.msgArray, EmptyObject)
        ELSE [c \in Range(stockCodes) |-> ErrorItem] ]

\* What the exchange can answer to a request for stockCodes: an entry, in
\* request order, for each code it knows, with any last price and close.
RECURSIVE MsgArrays(_)
MsgArrays(stockCodes) ==
    IF stockCodes = <<>> THEN {<<>>}
    ELSE LET rest == MsgArrays(Tail(stockCodes))
         IN  rest \cup
             { <<[c |-> Head(stockCodes), z |-> z, y |-> y]>> \o r :
                 z \in RawZ, y \in RawYOf(Head(stockCodes)), r \in rest }

\* axios.get(apiUrl): it throws, or answers without a msgArray, or with one.
ApiDatas(stockCodes) ==
    { [kind |-> k, msgArray |-> <<>>] : k \in {"throw", "nomsg"} } \cup
    { [kind |-> "msgArray", msgArray |-> m] : m \in MsgArrays(stockCodes) }

----------------------------------------------------------------------------
(* Front end, stock-monitor/src/App.vue: the quote poller *)

\* Wall-clock times at which a response can arrive, as <<hours, minutes>>
Clock == { <<8, 29>>, <<8, 30>>, <<13, 59>>, <<14, 0>> }

\* The 8:30-14:00 check the comment above isTradingHours describes (the other
\* revision of the component computes it from new Date()).
InTradingWindow(now) ==
    (now[1] > 8 \/ (now[1] = 8 /\ now[2] >= 30)) /\ now[1] < 14

\* App.vue:547  const isTradingHours = true
isTradingHours == TRUE

\* stockData.value[code]?.f !== undefined, stockData.value being `previous`
PrevDefined(previous, code, f) ==
    code \in DOMAIN previous /\ previous[code][f] # Undefined

\* Mutant of Conditional: the isTradingHours conjunct is left out.
Conditional_NoTradingCheck(previous, trading, item, code, f, prev) ==
    IF item[f] = NA /\ PrevDefined(previous, code, prev)
    THEN previous[code][prev]
    ELSE item[f]

\* One of the conditional fields of processedData[code]: item[f], or field
\* prev of the displayed record (z reads z, the others read themselves).
Conditional(previous, trading, item, code, f, prev) ==
    IF trading /\ item[f] = NA /\ PrevDefined(previous, code, prev)
    THEN previous[code][prev]
    ELSE item[f]

\* Mutant of Processed: YesterdayClose gets the conditional update too.
Processed_CarryClose(previous, trading, item, code) ==
    [ Code             |-> item.Code,
      z                |-> Conditional(previous, trading, item, code, "InstantPrice", "z"),
      InstantPrice     |-> Conditional(previous, trading, item, code, "InstantPrice", "InstantPrice"),
      PriceChange      |-> Conditional(previous, trading, item, code, "PriceChange", "PriceChange"),
      ChangePercentage |-> Conditional(previous, trading, item, code, "ChangePercentage", "ChangePercentage"),
      YesterdayClose   |-> Conditional(previous, trading, item, code, "YesterdayClose", "YesterdayClose") ]

\* Mutant of Processed: z keeps the price displayed before whenever there is one.
Processed_StaleZ(previous, trading, item, code) ==
    [ Code             |-> item.Code,
      z                |-> IF PrevDefined(previous, code, "InstantPrice")
                           THEN previous[code].InstantPrice ELSE item.InstantPrice,
      InstantPrice     |-> Conditional(previous, trading, item, code, "InstantPrice", "InstantPrice"),
      PriceChange      |-> Conditional(previous, trading, item, code, "PriceChange", "PriceChange"),
      ChangePercentage |-> Conditional(previous, trading, item, code, "ChangePercentage", "ChangePercentage"),
      YesterdayClose   |-> item.YesterdayClose ]

\* processedData[code] = { ... }
Processed(previous, trading, item, code) ==
    [ Code             |-> item.Code,
      z                |-> Conditional(previous, trading, item, code, "InstantPrice", "z"),
      InstantPrice     |-> Conditional(previous, trading, item, code, "InstantPrice", "InstantPrice"),
      PriceChange      |-> Conditional(previous, trading, item, code, "PriceChange", "PriceChange"),
      ChangePercentage |-> Conditional(previous, trading, item, code, "ChangePercentage", "ChangePercentage"),
      YesterdayClose   |-> item.YesterdayClose ]

\* Mutant of Included: the includes() test is left out.
Included_Always(tracked, code) == TRUE

\* if (trackedStocks.value.includes(code))
Included(tracked, code) == code \in Range(tracked)

\* processedData after the for-in loop over apiResponse.stockData, with
\* stockData.value = previous and trackedStocks.value = tracked
ProcessedData(previous, fetched, tracked, trading) ==
    [ code \in {c \in DOMAIN fetched : Included(tracked, c)} |->
        Processed(previous, trading, fetched[code], code) ]

NoPoll == [status |-> "none", fetched |-> EmptyObject]

\* fetchStockData up to its await, called with the watch-list `tracked` and
\* the pending calls `pending` of that moment: the early return on an empty
\* watch-list, or the POST with the watch-list as its body.
fetchStockData(tracked, pending) ==
    IF Len(tracked) = 0
    THEN /\ stockData' = EmptyObject
         /\ poll' = [NoPoll EXCEPT !.status = "empty"]
         /\ inflight' = pending
         /\ UNCHANGED lastFetchTime
    ELSE /\ Len(pending) < MaxInFlight
         /\ inflight' = Append(pending, [op |-> "fetchStockData", stockCodes |-> tracked])
         /\ UNCHANGED <<stockData, poll, lastFetchTime>>

\* Watch-lists a saved file (localStorage, or the backend's stockData.json
\* behind GET /api/user-stocks) can hold.
SavedStocks ==
    {<<>>} \cup {<<c>> : c \in Codes} \cup
    UNION {{<<c, d>> : d \in Codes \ {c}} : c \in Codes}

\* The answers POST /api/stock-data can give to each request body
ApiResponses ==
    [ stockCodes \in SavedStocks |->
        {StockDataResponse(stockCodes, apiData) : apiData \in ApiDatas(stockCodes)} ]

RemoveAt(seq, i) == SubSeq(seq, 1, i - 1) \o SubSeq(seq, i + 1, Len(seq))

\* catch (error) of fetchStockData: the error is logged ("Keep existing data
\* on error")
catchFetchError_Clear ==
    /\ stockData' = EmptyObject
    /\ UNCHANGED lastFetchTime

catchFetchError == UNCHANGED <<stockData, lastFetchTime>>

\* fetchStockData after its await: the response is not OK or the request
\* failed (catch: nothing is written), or the response is processed.
fetchStockDataResume(i) ==
    /\ i \in 1..Len(inflight)
    /\ inflight[i].op = "fetchStockData"
    /\ \E apiResponse \in ApiResponses[inflight[i].stockCodes] :
         IF ~apiResponse.ok
         THEN /\ poll' = [NoPoll EXCEPT !.status = "error"]
              /\ catchFetchError
         ELSE /\ lastFetchTime' = apiResponse.sysTime
              /\ stockData' = ProcessedData(stockData, apiResponse.stockData,
                                            trackedStocks, isTradingHours)
              /\ poll' = [status |-> "ok", fetched |-> apiResponse.stockData]
    /\ inflight' = RemoveAt(inflight, i)
    /\ UNCHANGED <<mounted, trackedStocks>>
    /\ UNCHANGED chartVars
    /\ UNCHANGED outsideApp

\* App.vue:602  the first onMounted hook: the list of localStorage, a first fetch
onMounted ==
    /\ mounted = "created"
    /\ mounted' = "loading"
    /\ \E savedStocks \in SavedStocks :
         /\ trackedStocks' = savedStocks
         /\ fetchStockData(savedStocks, inflight)
    /\ UNCHANGED chartVars
    /\ UNCHANGED outsideApp

\* App.vue:760  the second onMounted hook, after GET /api/user-stocks settled:
\* the backend's list (the empty list when the load failed), a fetch, and the
\* 5 s interval
onMountedResume ==
    /\ mounted = "loading"
    /\ mounted' = "mounted"
    /\ \E savedStocks \in SavedStocks :
         /\ trackedStocks' = savedStocks
         /\ fetchStockData(savedStocks, inflight)
    /\ UNCHANGED chartVars
    /\ UNCHANGED outsideApp

\* setInterval(fetchStockData, 5000)
setIntervalTick ==
    /\ mounted = "mounted"
    /\ fetchStockData(trackedStocks, inflight)
    /\ UNCHANGED <<mounted, trackedStocks>>
    /\ UNCHANGED chartVars
    /\ UNCHANGED outsideApp

\* addStock up to await saveTrackedStocks(); code is the trimmed, upper-cased
\* input (an empty or already tracked input changes nothing)
addStock(code) ==
    /\ mounted = "mounted"
    /\ code \notin Range(trackedStocks)
    /\ Len(inflight) < MaxInFlight
    /\ trackedStocks' = Append(trackedStocks, code)
    /\ inflight' = Append(inflight, [op |-> "addStock", stockCodes |-> <<>>])
    /\ UNCHANGED <<mounted, stockData, poll, lastFetchTime>>
    /\ UNCHANGED chartVars
    /\ UNCHANGED outsideApp

\* addStock after saveTrackedStocks settled (it catches its own errors)
addStockResume(i) ==
    /\ i \in 1..Len(inflight)
    /\ inflight[i].op = "addStock"
    /\ fetchStockData(trackedStocks, RemoveAt(inflight, i))
    /\ UNCHANGED <<mounted, trackedStocks>>
    /\ UNCHANGED chartVars
    /\ UNCHANGED outsideApp

SelectSeq2(seq, code) == SelectSeq(seq, LAMBDA stockCode : stockCode # code)

\* removeStock(code), from the row's button, which exists only for a code of
\* the watch-list whose record is displayed; nothing follows its await
removeStock(code) ==
    /\ mounted = "mounted"
    /\ code \in Range(trackedStocks)
    /\ code \in DOMAIN stockData
    /\ trackedStocks' = SelectSeq2(trackedStocks, code)
    /\ stockData' = [c \in DOMAIN stockData \ {code} |-> stockData[c]]
    /\ UNCHANGED <<mounted, inflight, poll, lastFetchTime>>
    /\ UNCHANGED chartVars
    /\ UNCHANGED outsideApp

----------------------------------------------------------------------------
(* Chart modal: GET /api/stock-monthly, GET /api/stock-yearly, renderChart *)

Null == [kind |-> "null", data |-> <<>>]

\* 收盤價 as the exchange writes it: the price in hundredths, written with or
\* without a thousands separator ("1,025.00" is CloseComma(102500)).
Close(v) == [comma |-> FALSE, nan |-> FALSE, v |-> v]
CloseComma(v) == [comma |-> TRUE, nan |-> FALSE, v |-> v]
\* "--", the closing price of a day without a trade
CloseDashes == [comma |-> FALSE, nan |-> TRUE, v |-> 0]

\* 漲跌價差 as the exchange writes it: a first character ("+", "-", " ", or
\* "X" on an ex-dividend day) and the magnitude in hundredths.
Change(sign, v) == [sign |-> sign, v |-> v]

\* Rows of the exchange's STOCK_DAY table, reduced to the three columns the
\* chart reads: 日期 as <<year, month, day>> (month and day in two digits, the
\* year of the Minguo calendar or a Western one), 收盤價 and 漲跌價差.
Rows ==
    { [date |-> <<114, 10, 31>>, close |-> Close(59000), change |-> Change("-", 1000)],
      [date |-> <<114, 11, 3>>,  close |-> Close(60000), change |-> Change("+", 1000)] }

Batches == UNION {[1..n -> Rows] : n \in 0..MaxRows}

\* What axios.get(STOCK_DAY) gives: a rejection, a body without fields and
\* data (the exchange's "no data" answer), or a body with fields and data.
StockDays ==
    {[kind |-> k, data |-> <<>>] : k \in {"throw", "nodata"}} \cup
    {[kind |-> "data", data |-> b] : b \in Batches}

\* The answers to the requests of the yearly endpoint, one per month, each
\* with at most one row.
MonthlyResponses ==
    [1..MonthsBack -> {d \in StockDays : Len(d.data) <= 1}]

\* GET /api/stock-monthly/:stockCode  the upstream body as it is, or 500
StockMonthlyResponse(apiData) ==
    IF apiData.kind = "throw"
    THEN [ok |-> FALSE, body |-> Null]
    ELSE [ok |-> TRUE,  body |-> apiData]

RECURSIVE Concat(_)
\* combinedData: the data of every answered month that has data, in order
Concat(monthlyResponses) ==
    IF monthlyResponses = <<>> THEN <<>>
    ELSE (IF Head(monthlyResponses).kind = "data"
          THEN Head(monthlyResponses).data ELSE <<>>)
         \o Concat(Tail(monthlyResponses))

Reverse(seq) == [i \in 1..Len(seq) |-> seq[Len(seq) + 1 - i]]

\* GET /api/stock-yearly/:stockCode  404 when no month gave a row, else the
\* rows of all months, reversed
StockYearlyResponse(monthlyResponses) ==
    LET combinedData == Concat(monthlyResponses)
    IN  IF Len(combinedData) = 0
        THEN [ok |-> FALSE, body |-> Null]
        ELSE [ok |-> TRUE,  body |-> [kind |-> "data", data |-> Reverse(combinedData)]]

\* A date string is the tuple of its slash-separated parts: <<113, 5, 12>> is
\* "113/05/12", <<113, 5>> is "113/05".
\* convertMinguoToGregorian: "YYYY/MM/DD" with month and day padded when the
\* string has three parts, so that two such strings compare as the triples
\* do; the string itself when it has not.
convertMinguoToGregorian(date) ==
    IF Len(date) = 3 THEN <<date[1] + 1911, date[2], date[3]>> ELSE date

LessThan(a, b) ==
    \/ a[1] < b[1]
    \/ a[1] = b[1] /\ a[2] < b[2]
    \/ a[1] = b[1] /\ a[2] = b[2] /\ a[3] < b[3]

RECURSIVE DigitsOf(_)
\* The character codes of the decimal digits of n
DigitsOf(n) == IF n < 10 THEN <<48 + n>> ELSE Append(DigitsOf(n \div 10), 48 + (n % 10))

\* The characters of a date string: the first part as it is, every other part
\* after a "/" (code 47) and with two digits
RECURSIVE Chars(_)
Chars(date) ==
    IF Len(date) = 0 THEN <<>>
    ELSE IF Len(date) = 1 THEN DigitsOf(date[1])
    ELSE Chars(SubSeq(date, 1, Len(date) - 1))
           \o <<47, 48 + (date[Len(date)] \div 10), 48 + (date[Len(date)] % 10)>>

\* a < b on strings: at the first place where they differ a has the smaller
\* character, or a is a proper prefix of b
StringLess(a, b) ==
    \E k \in 1..(Len(b)) :
        /\ \A j \in 1..(k - 1) : j <= Len(a) /\ a[j] = b[j]
        /\ (k > Len(a) \/ (k - 1 < Len(a) /\ a[k] < b[k]))

\* comparableDateA < comparableDateB
ComparableLess(a, b) ==
    IF Len(a) = 3 /\ Len(b) = 3 THEN LessThan(a, b) ELSE StringLess(Chars(a), Chars(b))

RECURSIVE Insert(_, _)
Insert(sorted, row) ==
    IF sorted = <<>> THEN <<row>>
    ELSE IF ComparableLess(convertMinguoToGregorian(row.date),
                           convertMinguoToGregorian(Head(sorted).date))
         THEN <<row>> \o sorted
         ELSE <<Head(sorted)>> \o Insert(Tail(sorted), row)

RECURSIVE Sort(_)
\* data.sort(...) by date, ascending; rows of one date keep their order
Sort(data) ==
    IF data = <<>> THEN <<>>
    ELSE Insert(Sort(SubSeq(data, 1, Len(data) - 1)), data[Len(data)])

\* The body stored in stockMonthlyData / stockYearlyData: sorted when it has
\* fields and data.
Sorted(body) ==
    IF body.kind = "data" THEN [body EXCEPT !.data = Sort(body.data)] ELSE body

\* closingPriceStr.replace(/,/g, '')
RemoveCommas(closingPriceStr) == [closingPriceStr EXCEPT !.comma = FALSE]

\* parseFloat(closingPriceStr): the digits up to the first character that is
\* not part of a number, so only the thousands of "1,025.00"
parseFloatClose(closingPriceStr) ==
    IF closingPriceStr.nan THEN NaN
    ELSE IF closingPriceStr.comma
    THEN Num((closingPriceStr.v \div 100000) * 100)
    ELSE Num(closingPriceStr.v)

\* The magnitude alone, whatever the sign of the string
ActualPriceChange_Unsigned(priceChangeStr) ==
    IF priceChangeStr.sign = "X" THEN NaN ELSE Num(priceChangeStr.v)

\* parseFloat(priceChangeStr.replace('+', '').replace('-', '')), negated when
\* priceChangeStr.includes('-')
ActualPriceChange(priceChangeStr) ==
    LET priceChange == IF priceChangeStr.sign = "X" THEN NaN ELSE Num(priceChangeStr.v)
    IN  IF priceChangeStr.sign = "-" /\ ~isNaN(priceChange)
        THEN Num(-priceChange.n)
        ELSE priceChange

\* The change as a percentage of the closing price itself
PercentageChange_OfClose(closingPrice, actualPriceChange) ==
    IF isNaN(closingPrice) \/ isNaN(actualPriceChange)
    THEN NaN
    ELSE IF closingPrice.n > 0
         THEN Num(RoundDiv(10000 * actualPriceChange.n, closingPrice.n))
         ELSE Num(0)

\* parseFloat(percentageChange.toFixed(2)), in hundredths of a percent
PercentageChange(closingPrice, actualPriceChange) ==
    IF isNaN(closingPrice) \/ isNaN(actualPriceChange)
    THEN NaN
    ELSE LET yesterdayClose == closingPrice.n - actualPriceChange.n
         IN  IF yesterdayClose # 0
             THEN (IF yesterdayClose > 0
                   THEN Num(RoundDiv(10000 * actualPriceChange.n, yesterdayClose))
                   ELSE Num(RoundDiv(-10000 * actualPriceChange.n, -yesterdayClose)))
             ELSE Num(0)

\* renderChart, monthly branch: one point per row, labelled "MM/DD"
DailySeries(rawData) ==
    [ labels               |-> [i \in 1..Len(rawData) |-> Tail(rawData[i].date)],
      percentageChangeData |-> [i \in 1..Len(rawData) |->
                                 PercentageChange(parseFloatClose(rawData[i].close),
                                                  ActualPriceChange(rawData[i].change))],
      closingPriceData     |-> [i \in 1..Len(rawData) |-> parseFloatClose(rawData[i].close)],
      actualPriceChange    |-> [i \in 1..Len(rawData) |-> ActualPriceChange(rawData[i].change)],
      dateError            |-> FALSE ]

\* monthKey of a row: `${year}/${month}`, the year taken as Minguo below 1911
MonthKey(row) ==
    <<IF row.date[1] < 1911 THEN row.date[1] + 1911 ELSE row.date[1], row.date[2]>>

MonthKeyLess(a, b) == a[1] < b[1] \/ (a[1] = b[1] /\ a[2] < b[2])

RECURSIVE SortedMonths(_)
\* Object.keys(monthlyLastDayData).sort()
SortedMonths(keys) ==
    IF keys = {} THEN <<>>
    ELSE LET first == CHOOSE k \in keys : \A o \in keys \ {k} : MonthKeyLess(k, o)
         IN  <<first>> \o SortedMonths(keys \ {first})

\* monthlyLastDayData[monthKey]: the row of that month met last
LastDayData(rawData, monthKey) ==
    LET last == CHOOSE i \in 1..Len(rawData) :
                  /\ MonthKey(rawData[i]) = monthKey
                  /\ \A j \in (i + 1)..Len(rawData) : MonthKey(rawData[j]) # monthKey
    IN  rawData[last]

\* The rows the forEach of the yearly branch does not skip: dateParts.length === 3
ThreeParts(rawData) == SelectSeq(rawData, LAMBDA dayData : Len(dayData.date) = 3)

\* renderChart, yearly branch: one point per month, labelled "YYYY/MM";
\* dateError: console.error('Unexpected date format:', date) for a skipped row
MonthlySeries(rawData) ==
    LET grouped      == ThreeParts(rawData)
        sortedMonths == SortedMonths({MonthKey(grouped[i]) : i \in 1..Len(grouped)})
        lastDay(i)   == LastDayData(grouped, sortedMonths[i])
    IN  [ labels               |-> sortedMonths,
          percentageChangeData |-> [i \in 1..Len(sortedMonths) |->
                                     PercentageChange(parseFloatClose(RemoveCommas(lastDay(i).close)),
                                                      ActualPriceChange(lastDay(i).change))],
          closingPriceData     |-> [i \in 1..Len(sortedMonths) |->
                                     parseFloatClose(RemoveCommas(lastDay(i).close))],
          actualPriceChange    |-> [i \in 1..Len(sortedMonths) |->
                                     ActualPriceChange(lastDay(i).change)],
          dateError            |-> Len(grouped) # Len(rawData) ]

NoChart == [labels |-> <<>>, percentageChangeData |-> <<>>, closingPriceData |-> <<>>,
            type |-> "null"]

\* renderChart: the Chart it leaves in stockChartInstance, whether it logged
\* its error (no canvas, or no data with fields and data), and the
\* actualPriceChange it computed for each point.
renderChart(type, monthly, yearly, visible, instance) ==
    LET chartData == IF type = "yearly" THEN yearly ELSE monthly
    IN  IF ~visible \/ chartData.kind # "data"
        THEN [instance |-> instance, error |-> TRUE, priceChanges |-> <<>>,
              dateError |-> FALSE]
        ELSE LET series == IF type = "yearly" THEN MonthlySeries(chartData.data)
                           ELSE DailySeries(chartData.data)
             IN  [instance |-> [labels               |-> series.labels,
                                percentageChangeData |-> series.percentageChangeData,
                                closingPriceData     |-> series.closingPriceData,
                                type                 |-> type],
                  error |-> FALSE, priceChanges |-> series.actualPriceChange,
                  dateError |-> series.dateError]

\* priceChanges: the actualPriceChange of each point of the last rendering;
\* dateError: that rendering logged 'Unexpected date format' for a row;
\* input: the upstream answers the handler's request got (one for the
\* monthly endpoint, one per month for the yearly one); lastDayOfMonth: the
\* length of the month the monthly data was fetched in (0: not fetched)
NoChartLog == [op |-> "none", input |-> <<>>, lastDayOfMonth |-> 0,
               emptyBatch |-> FALSE, fetchError |-> FALSE,
               rendered |-> FALSE, renderError |-> FALSE, priceChanges |-> <<>>,
               dateError |-> FALSE]

\* new Date(year, month + 1, 0).getDate()
DaysInMonth == {28, 29, 30, 31}

\* Incomplete also with as many rows as the month has days
MonthlyDataIncomplete_AtMost(monthlyData, lastDayOfMonth) ==
    monthlyData.kind = "data" /\ Len(monthlyData.data) <= lastDayOfMonth

\* The completeness check of showChartModal: data with fewer rows than the
\* current month has days
MonthlyDataIncomplete(monthlyData, lastDayOfMonth) ==
    monthlyData.kind = "data" /\ Len(monthlyData.data) < lastDayOfMonth

\* showChartModal up to its await, from the row's button (covered by the
\* modal while it is open).  Setting chartDataType back to 'monthly' runs the
\* watcher, which renders.
showChartModal(code) ==
    /\ mounted = "mounted"
    /\ ~isChartModalVisible
    /\ code \in Range(trackedStocks)
    /\ code \in DOMAIN stockData
    /\ Len(chartInflight) < MaxInFlight
    /\ selectedStockCode' = stockData[code].Code
    /\ chartDataType' = "monthly"
    /\ chartInflight' = Append(chartInflight,
                               [op |-> "showChartModal", stockCode |-> stockData[code].Code])
    /\ IF chartDataType = "yearly"
       THEN LET r == renderChart("monthly", stockMonthlyData, stockYearlyData,
                                 isChartModalVisible, stockChartInstance)
            IN  /\ stockChartInstance' = r.instance
                /\ chartLog' = [NoChartLog EXCEPT !.rendered = TRUE, !.renderError = r.error,
                                                  !.priceChanges = r.priceChanges,
                                                  !.dateError = r.dateError]
       ELSE UNCHANGED <<stockChartInstance, chartLog>>
    /\ UNCHANGED <<stockMonthlyData, stockYearlyData, isMonthlyDataIncomplete,
                   isChartModalVisible>>
    /\ UNCHANGED pollVars
    /\ UNCHANGED outsideApp

\* showChartModal after its await: the monthly data (null on a failure), the
\* yearly fetch started in the background, the modal shown and rendered
showChartModalResume(i, apiData, lastDayOfMonth) ==
    /\ i \in 1..Len(chartInflight)
    /\ chartInflight[i].op = "showChartModal"
    /\   LET monthlyResponse == StockMonthlyResponse(apiData)
             monthlyData     == IF monthlyResponse.ok THEN Sorted(monthlyResponse.body) ELSE Null
             r == renderChart(chartDataType, monthlyData, stockYearlyData,
                              TRUE, stockChartInstance)
         IN  /\ stockMonthlyData' = monthlyData
             /\ isMonthlyDataIncomplete' = MonthlyDataIncomplete(monthlyData, lastDayOfMonth)
             /\ stockChartInstance' = r.instance
             /\ chartLog' = [op          |-> "monthly",
                             input       |-> <<apiData>>,
                             lastDayOfMonth |-> lastDayOfMonth,
                             emptyBatch  |-> apiData.kind = "data" /\ apiData.data = <<>>,
                             fetchError  |-> ~monthlyResponse.ok,
                             rendered    |-> TRUE,
                             renderError |-> r.error,
                             priceChanges |-> r.priceChanges,
                             dateError   |-> r.dateError]
    /\ chartInflight' = Append(RemoveAt(chartInflight, i),
                               [op |-> "yearly", stockCode |-> chartInflight[i].stockCode])
    /\ isChartModalVisible' = TRUE
    /\ UNCHANGED <<selectedStockCode, chartDataType, stockYearlyData>>
    /\ UNCHANGED pollVars
    /\ UNCHANGED outsideApp

\* Every month was answered with fields and data, and no month had a row.
EmptyBatch(monthlyResponses) ==
    /\ \A m \in 1..Len(monthlyResponses) : monthlyResponses[m].kind = "data"
    /\ Concat(monthlyResponses) = <<>>

\* .then/.catch of the yearly fetch showChartModal started: nothing is rendered
yearlyResume(i, monthlyResponses) ==
    /\ i \in 1..Len(chartInflight)
    /\ chartInflight[i].op = "yearly"
    /\   LET yearlyResponse == StockYearlyResponse(monthlyResponses)
         IN  /\ stockYearlyData' = IF yearlyResponse.ok THEN Sorted(yearlyResponse.body) ELSE Null
             /\ chartLog' = [op          |-> "yearly",
                             input       |-> monthlyResponses,
                             lastDayOfMonth |-> 0,
                             emptyBatch  |-> EmptyBatch(monthlyResponses),
                             fetchError  |-> ~yearlyResponse.ok,
                             rendered    |-> FALSE,
                             renderError |-> FALSE,
                             priceChanges |-> <<>>,
                             dateError   |-> FALSE]
    /\ chartInflight' = RemoveAt(chartInflight, i)
    /\ UNCHANGED <<selectedStockCode, isChartModalVisible, chartDataType, stockMonthlyData,
                   isMonthlyDataIncomplete, stockChartInstance>>
    /\ UNCHANGED pollVars
    /\ UNCHANGED outsideApp

\* One of the two buttons of the modal, and watch(chartDataType) up to its
\* await: the yearly data is fetched when there is none, else the chart is
\* rendered at once.
setChartDataType(newType) ==
    /\ isChartModalVisible
    /\ newType # chartDataType
    /\ chartDataType' = newType
    /\ IF newType = "yearly" /\ stockYearlyData = Null /\ selectedStockCode # ""
       THEN /\ Len(chartInflight) < MaxInFlight
            /\ chartInflight' = Append(chartInflight,
                                       [op |-> "watch", stockCode |-> selectedStockCode])
            /\ UNCHANGED <<stockChartInstance, chartLog>>
       ELSE LET r == renderChart(newType, stockMonthlyData, stockYearlyData,
                                 isChartModalVisible, stockChartInstance)
            IN  /\ stockChartInstance' = r.instance
                /\ chartLog' = [NoChartLog EXCEPT !.rendered = TRUE, !.renderError = r.error,
                                                  !.priceChanges = r.priceChanges,
                                                  !.dateError = r.dateError]
                /\ UNCHANGED chartInflight
    /\ UNCHANGED <<selectedStockCode, isChartModalVisible, stockMonthlyData, stockYearlyData,
                   isMonthlyDataIncomplete>>
    /\ UNCHANGED pollVars
    /\ UNCHANGED outsideApp

\* watch(chartDataType) after its await: the yearly data (null on a failure),
\* then the chart is rendered
watchResume(i, monthlyResponses) ==
    /\ i \in 1..Len(chartInflight)
    /\ chartInflight[i].op = "watch"
    /\   LET yearlyResponse == StockYearlyResponse(monthlyResponses)
             yearlyData     == IF yearlyResponse.ok THEN Sorted(yearlyResponse.body) ELSE Null
             r == renderChart(chartDataType, stockMonthlyData, yearlyData,
                              isChartModalVisible, stockChartInstance)
         IN  /\ stockYearlyData' = yearlyData
             /\ stockChartInstance' = r.instance
             /\ chartLog' = [op          |-> "yearly",
                             input       |-> monthlyResponses,
                             lastDayOfMonth |-> 0,
                             emptyBatch  |-> EmptyBatch(monthlyResponses),
                             fetchError  |-> ~yearlyResponse.ok,
                             rendered    |-> TRUE,
                             renderError |-> r.error,
                             priceChanges |-> r.priceChanges,
                             dateError   |-> r.dateError]
    /\ chartInflight' = RemoveAt(chartInflight, i)
    /\ UNCHANGED <<selectedStockCode, isChartModalVisible, chartDataType, stockMonthlyData,
                   isMonthlyDataIncomplete>>
    /\ UNCHANGED pollVars
    /\ UNCHANGED outsideApp

\* hideChartModal, from the modal's close button
hideChartModal ==
    /\ isChartModalVisible
    /\ isChartModalVisible' = FALSE
    /\ selectedStockCode' = ""
    /\ stockChartInstance' = NoChart
    /\ chartLog' = NoChartLog
    /\ UNCHANGED <<chartDataType, stockMonthlyData, stockYearlyData, isMonthlyDataIncomplete,
                   chartInflight>>
    /\ UNCHANGED pollVars
    /\ UNCHANGED outsideApp

----------------------------------------------------------------------------

----------------------------------------------------------------------------
(* Backend, second revision of the server: the tracked stocks it keeps in
   stockData (and in stockData.json) *)

\* Codes a client can name; "00632r" is "00632R" typed in lower case
ServerCodes == {"2330", "00632R", "00632r"}

\* code.toUpperCase()
toUpperCase_AsIs(code) == code

toUpperCase(code) == IF code = "00632r" THEN "00632R" ELSE code

\* What stockData holds for a code: {} after an add, a quote, or an error item
EmptyData == "{}"
QuoteData == "quote"
ErrorData == "error"

\* status 0: the handler has not answered yet
Reply(op, stockCode, status) == [op |-> op, stockCode |-> stockCode, status |-> status]

\* Object.assign(stockData, results)
Assign(target, results) == results @@ target

\* GET /api/tracked-stocks answers Object.keys(stockData)
trackedStocksGet ==
    /\ serverReply' = Reply("get", "", 200)
    /\ UNCHANGED <<serverStockData, serverInflight>>
    /\ UNCHANGED <<pollVars, chartVars, keyVars, apiVars>>

\* POST /api/tracked-stocks up to fs.writeFile; stockCode "" stands for a body
\* without a stockCode string
trackedStocksPost(stockCode) ==
    /\ IF stockCode = ""
       THEN /\ serverReply' = Reply("post", stockCode, 400)
            /\ UNCHANGED <<serverStockData, serverInflight>>
       ELSE LET existingCodes == {toUpperCase(code) : code \in DOMAIN serverStockData}
            IN  IF toUpperCase(stockCode) \in existingCodes
                THEN /\ serverReply' = Reply("post", stockCode, 400)
                     /\ UNCHANGED <<serverStockData, serverInflight>>
                ELSE /\ Len(serverInflight) < MaxInFlight
                     /\ serverStockData' = Assign(serverStockData, stockCode :> EmptyData)
                     /\ serverInflight' = Append(serverInflight,
                                                 [op |-> "post", stockCode |-> stockCode,
                                                  stockCodes |-> {}])
                     /\ serverReply' = Reply("post", stockCode, 0)
    /\ UNCHANGED <<pollVars, chartVars, keyVars, apiVars>>

\* DELETE /api/tracked-stocks/:stockCode up to fs.writeFile
trackedStocksDelete(stockCode) ==
    /\ IF stockCode \notin DOMAIN serverStockData
       THEN /\ serverReply' = Reply("delete", stockCode, 404)
            /\ UNCHANGED <<serverStockData, serverInflight>>
       ELSE /\ Len(serverInflight) < MaxInFlight
            /\ serverStockData' = [code \in DOMAIN serverStockData \ {stockCode} |->
                                     serverStockData[code]]
            /\ serverInflight' = Append(serverInflight,
                                        [op |-> "delete", stockCode |-> stockCode,
                                         stockCodes |-> {}])
            /\ serverReply' = Reply("delete", stockCode, 0)
    /\ UNCHANGED <<pollVars, chartVars, keyVars, apiVars>>

\* The callback of fs.writeFile of an add or a delete: 500 on err, else 200
writeFileResume(i, err) ==
    /\ i \in 1..Len(serverInflight)
    /\ serverInflight[i].op \in {"post", "delete"}
    /\ serverReply' = Reply(serverInflight[i].op, serverInflight[i].stockCode,
                            IF err THEN 500 ELSE 200)
    /\ serverInflight' = RemoveAt(serverInflight, i)
    /\ UNCHANGED serverStockData
    /\ UNCHANGED <<pollVars, chartVars, keyVars, apiVars>>

\* POST /api/stock-data up to await axios.get: the codes are the keys of stockData
serverStockDataPost ==
    /\ LET stockCodes == DOMAIN serverStockData
       IN  IF stockCodes = {}
           THEN /\ serverReply' = Reply("stock-data", "", 200)
                /\ UNCHANGED serverInflight
           ELSE /\ Len(serverInflight) < MaxInFlight
                /\ serverInflight' = Append(serverInflight,
                                            [op |-> "stock-data", stockCode |-> "",
                                             stockCodes |-> stockCodes])
                /\ serverReply' = Reply("stock-data", "", 0)
    /\ UNCHANGED serverStockData
    /\ UNCHANGED <<pollVars, chartVars, keyVars, apiVars>>

\* What axios.get can give for the codes asked: it throws, answers without a
\* msgArray, or with a msgArray of quotes for some of the codes
ServerApiDatas(stockCodes) ==
    { [kind |-> k, codes |-> {}] : k \in {"throw", "nomsg"} } \cup
    { [kind |-> "msgArray", codes |-> m] : m \in SUBSET stockCodes }

\* POST /api/stock-data after the await: 500 when axios threw, else the
\* results are merged into stockData and answered
serverStockDataResume(i, apiData) ==
    /\ i \in 1..Len(serverInflight)
    /\ serverInflight[i].op = "stock-data"
    /\ apiData \in ServerApiDatas(serverInflight[i].stockCodes)
    /\ LET stockCodes == serverInflight[i].stockCodes
           results ==
               IF apiData.kind = "msgArray"
               THEN [code \in apiData.codes |-> QuoteData]
               ELSE [code \in stockCodes |->
                       IF code \in DOMAIN serverStockData
                       THEN serverStockData[code] ELSE ErrorData]
       IN  IF apiData.kind = "throw"
           THEN /\ serverReply' = Reply("stock-data", "", 500)
                /\ UNCHANGED serverStockData
           ELSE /\ serverStockData' = Assign(serverStockData, results)
                /\ serverReply' = Reply("stock-data", "", 200)
    /\ serverInflight' = RemoveAt(serverInflight, i)
    /\ UNCHANGED <<pollVars, chartVars, keyVars, apiVars>>

\* Codes a client can ask quotes for; "2881A" contains "2881"
KeyCodes == {"2330", "2881", "2881A"}

\* req.body.stockCodes: a list of one to three different codes
StockCodesAsked ==
    {<<c>> : c \in KeyCodes} \cup
    UNION {{<<c, d>> : d \in KeyCodes \ {c}} : c \in KeyCodes} \cup
    UNION {UNION {{<<c, d, e>> : e \in KeyCodes \ {c, d}} : d \in KeyCodes \ {c}} : c \in KeyCodes}

\* What the exchange answers with a msgArray: an entry, in request order,
\* for each code asked that it knows, with any last price
RECURSIVE MsgArraysAsked(_)
MsgArraysAsked(stockCodes) ==
    IF stockCodes = <<>> THEN {<<>>}
    ELSE LET rest == MsgArraysAsked(Tail(stockCodes))
         IN  rest \cup
             { <<[c |-> Head(stockCodes), z |-> z, y |-> RawNum(59000)]>> \o r :
                 z \in RawZ, r \in rest }

NoStockDataRes == [stockCodes |-> <<>>, msgArray |-> <<>>, results |-> EmptyObject]

\* POST /api/stock-data up to await axios.get
stockDataPost(stockCodes) ==
    /\ stockDataReq = <<>>
    /\ stockDataReq' = stockCodes
    /\ UNCHANGED stockDataRes
    /\ UNCHANGED <<pollVars, chartVars, backendVars, apiVars>>

\* POST /api/stock-data after the await, the exchange having answered with a
\* msgArray: results is filled entry by entry and answered
stockDataPostResume(msgArray) ==
    /\ stockDataReq # <<>>
    /\ msgArray \in MsgArraysAsked(stockDataReq)
    /\ stockDataRes' = [stockCodes |-> stockDataReq,
                        msgArray   |-> msgArray,
                        results    |-> Results(stockDataReq, msgArray, EmptyObject)]
    /\ stockDataReq' = <<>>
    /\ UNCHANGED <<pollVars, chartVars, backendVars, apiVars>>

----------------------------------------------------------------------------
(* Front end, stock-monitor/src/utils/api.ts: retryFetch, checkBackendHealth *)

\* retries = 3, the default of retryFetch
DefaultRetries == 3

\* How a fetch settles: a response with ok true, one with ok false, a rejection
Outcomes == {"ok", "nonok", "reject"}

\* pc: "idle", "fetching" (await fetch), "waiting" (await of the setTimeout
\* promise), "returned", "thrown"; health: what checkBackendHealth returned
NoRetry == [pc |-> "idle", caller |-> "", n |-> 0, retries |-> 0, requests |-> 0,
            outcomes |-> <<>>, health |-> "none"]

\* if (retries > 0)
CanRetry_Inclusive(retries) == retries >= 0

CanRetry(retries) == retries > 0

\* retryFetch(url, options, n) up to its await fetch
retryFetchCall(n) ==
    /\ retry.pc = "idle"
    /\ retry' = [NoRetry EXCEPT !.pc = "fetching", !.caller = "retryFetch",
                                !.n = n, !.retries = n, !.requests = 1]
    /\ UNCHANGED <<pollVars, chartVars, backendVars, keyVars>>

\* checkBackendHealth() up to the await fetch of its retryFetch(url)
checkBackendHealth ==
    /\ retry.pc = "idle"
    /\ retry' = [NoRetry EXCEPT !.pc = "fetching", !.caller = "checkBackendHealth",
                                !.n = DefaultRetries, !.retries = DefaultRetries,
                                !.requests = 1]
    /\ UNCHANGED <<pollVars, chartVars, backendVars, keyVars>>

\* The fetch settles: an OK response is returned (checkBackendHealth returns
\* response.ok); otherwise the catch block waits for the delay when retries
\* are left, and throws when none is (checkBackendHealth catches: false)
retryFetchResume(outcome) ==
    /\ retry.pc = "fetching"
    /\ LET outcomes == Append(retry.outcomes, outcome)
       IN  IF outcome = "ok"
           THEN retry' = [retry EXCEPT !.pc = "returned", !.outcomes = outcomes,
                              !.health = IF retry.caller = "checkBackendHealth"
                                         THEN "true" ELSE "none"]
           ELSE IF CanRetry(retry.retries)
           THEN retry' = [retry EXCEPT !.pc = "waiting", !.outcomes = outcomes]
           ELSE retry' = [retry EXCEPT !.pc = "thrown", !.outcomes = outcomes,
                              !.health = IF retry.caller = "checkBackendHealth"
                                         THEN "false" ELSE "none"]
    /\ UNCHANGED <<pollVars, chartVars, backendVars, keyVars>>

\* The setTimeout of the delay fires: retryFetch(url, options, retries - 1, delay)
retryFetchRetry ==
    /\ retry.pc = "waiting"
    /\ retry' = [retry EXCEPT !.pc = "fetching", !.retries = @ - 1, !.requests = @ + 1]
    /\ UNCHANGED <<pollVars, chartVars, backendVars, keyVars>>

\* The caller has its answer; the next call can be made
retryFetchDone ==
    /\ retry.pc \in {"returned", "thrown"}
    /\ retry' = NoRetry
    /\ UNCHANGED <<pollVars, chartVars, backendVars, keyVars>>

InitBackend ==
    /\ retry = NoRetry
    /\ serverStockData = <<>>
    /\ serverInflight = <<>>
    /\ serverReply = Reply("none", "", 0)
    /\ stockDataReq = <<>>
    /\ stockDataRes = NoStockDataRes

InitChart ==
    /\ selectedStockCode = ""
    /\ isChartModalVisible = FALSE
    /\ chartDataType = "monthly"
    /\ stockMonthlyData = Null
    /\ stockYearlyData = Null
    /\ isMonthlyDataIncomplete = FALSE
    /\ stockChartInstance = NoChart
    /\ chartInflight = <<>>
    /\ chartLog = NoChartLog

Init ==
    /\ mounted = "created"
    /\ trackedStocks = <<>>
    /\ stockData = EmptyObject
    /\ inflight = <<>>
    /\ poll = NoPoll
    /\ lastFetchTime = NullTime
    /\ InitChart
    /\ InitBackend

Next ==
    \/ onMounted
    \/ onMountedResume
    \/ setIntervalTick
    \/ \E code \in Codes : addStock(code)
    \/ \E i \in 1..MaxInFlight : addStockResume(i)
    \/ \E code \in Codes : removeStock(code)
    \/ \E i \in 1..MaxInFlight : fetchStockDataResume(i)

Spec == Init /\ [][Next]_vars

\* The chart modal on its own, over a table the poller has filled: both
\* codes tracked and displayed after one poll, no poll pending.  The chart
\* handlers read stockData only for the row's button, and the poller reads
\* no chart state.
Displayed ==
    StockDataResponse(<<"2330", "2881">>,
        [kind |-> "msgArray",
         msgArray |-> << [c |-> "2330", z |-> RawNum(60000), y |-> RawNum(59000)],
                         [c |-> "2881", z |-> RawNum(60000), y |-> RawNum(59000)] >>]).stockData

InitModal ==
    /\ mounted = "mounted"
    /\ trackedStocks = <<"2330", "2881">>
    /\ stockData = ProcessedData(EmptyObject, Displayed, <<"2330", "2881">>, isTradingHours)
    /\ inflight = <<>>
    /\ poll = [status |-> "ok", fetched |-> Displayed]
    /\ lastFetchTime = SysTime
    /\ InitChart
    /\ InitBackend

NextChart ==
    \/ \E code \in Codes : showChartModal(code)
    \/ \E i \in 1..MaxInFlight, apiData \in StockDays :
         showChartModalResume(i, apiData, 31)
    \/ \E i \in 1..MaxInFlight, monthlyResponses \in MonthlyResponses :
         yearlyResume(i, monthlyResponses)
    \/ \E newType \in {"monthly", "yearly"} : setChartDataType(newType)
    \/ \E i \in 1..MaxInFlight, monthlyResponses \in MonthlyResponses :
         watchResume(i, monthlyResponses)
    \/ hideChartModal

SpecChart == InitModal /\ [][NextChart]_vars

\* One session of the chart modal over a wider feed: era and Western dates,
\* two rows of one date, a close written with a thousands separator, a close
\* equal to the change (yesterday's close 0), an ex-dividend "X" change, and
\* batches as long as a month.
RowA == [date |-> <<113, 4, 30>>,  close |-> Close(10200),       change |-> Change("+", 200)]
RowB == [date |-> <<113, 5, 1>>,   close |-> CloseComma(102500), change |-> Change("-", 230)]
RowC == [date |-> <<113, 5, 12>>,  close |-> Close(1000),        change |-> Change("+", 1000)]
RowD == [date |-> <<2024, 5, 11>>, close |-> Close(10200),       change |-> Change(" ", 0)]
RowE == [date |-> <<113, 5, 12>>,  close |-> Close(10200),       change |-> Change("X", 0)]

SeriesBatches ==
    { <<>>, <<RowA>>, <<RowB>>, <<RowD>>, <<RowE>>,
      <<RowC, RowB, RowA>>, <<RowA, RowB, RowC>>,
      <<RowC, RowE>>, <<RowE, RowC>>, <<RowC, RowC>>,
      <<RowC, RowD>>, <<RowD, RowC>>, <<RowD, RowB, RowC>> } \cup
    {[i \in 1..n |-> RowA] : n \in {27, 28, 29, 30, 31}}

SeriesStockDays ==
    {[kind |-> k, data |-> <<>>] : k \in {"throw", "nodata"}} \cup
    {[kind |-> "data", data |-> b] : b \in SeriesBatches}

\* Answers of the yearly endpoint's upstream requests: the newest month
\* answered with `first`, every older month with `rest`.
MonthsAnswered(first, rest) == [m \in 1..MonthsBack |-> IF m = 1 THEN first ELSE rest]

Thrown == [kind |-> "throw", data |-> <<>>]

SeriesMonthAnswers ==
    {Thrown, [kind |-> "data", data |-> <<>>]} \cup
    {[kind |-> "data", data |-> b] :
        b \in {<<RowA>>, <<RowD>>, <<RowB, RowE>>, <<RowC, RowB>>}}

SeriesMonthlyResponses ==
    {MonthsAnswered(first, rest) : first \in SeriesMonthAnswers, rest \in SeriesMonthAnswers}

\* The monthly series: the wide feed on the monthly endpoint, while the
\* yearly endpoint fails or has one row a month.
NextSeries ==
    \/ \E code \in Codes :
         stockMonthlyData = Null /\ chartInflight = <<>> /\ showChartModal(code)
    \/ \E i \in 1..MaxInFlight, apiData \in SeriesStockDays, lastDayOfMonth \in DaysInMonth :
         showChartModalResume(i, apiData, lastDayOfMonth)
    \/ \E i \in 1..MaxInFlight, rest \in {Thrown, [kind |-> "data", data |-> <<RowA>>]} :
         yearlyResume(i, MonthsAnswered(Thrown, rest))
    \/ \E newType \in {"monthly", "yearly"} : setChartDataType(newType)
    \/ \E i \in 1..MaxInFlight, rest \in {Thrown, [kind |-> "data", data |-> <<RowA>>]} :
         watchResume(i, MonthsAnswered(Thrown, rest))
    \/ hideChartModal

SpecSeries == InitModal /\ [][NextSeries]_vars

\* The yearly series: the wide feed on the yearly endpoint, while the monthly
\* endpoint fails or has one row.
NextYearly ==
    \/ \E code \in Codes :
         stockMonthlyData = Null /\ chartInflight = <<>> /\ showChartModal(code)
    \/ \E i \in 1..MaxInFlight, apiData \in {Thrown, [kind |-> "data", data |-> <<RowA>>]} :
         showChartModalResume(i, apiData, 31)
    \/ \E i \in 1..MaxInFlight, monthlyResponses \in SeriesMonthlyResponses :
         yearlyResume(i, monthlyResponses)
    \/ \E newType \in {"monthly", "yearly"} : setChartDataType(newType)
    \/ \E i \in 1..MaxInFlight, monthlyResponses \in SeriesMonthlyResponses :
         watchResume(i, monthlyResponses)
    \/ hideChartModal

SpecYearly == InitModal /\ [][NextYearly]_vars

\* The chart modal over a feed with rows the exchange does not send in its
\* documented format: RowF is dated "113/05", with two parts.
RowF == [date |-> <<113, 5>>, close |-> Close(10300), change |-> Change("+", 100)]

\* RowG has no closing price: "--"  (RowE has the change "X0.00")
RowG == [date |-> <<113, 5, 2>>, close |-> CloseDashes, change |-> Change(" ", 0)]

BadBatches ==
    { <<RowF>>, <<RowC, RowF>>, <<RowF, RowA>>, <<RowD, RowF, RowA>>,
      <<RowG>>, <<RowA, RowG, RowC>>, <<RowE, RowA>>, <<RowG, RowB>> }

BadStockDays == {Thrown} \cup {[kind |-> "data", data |-> b] : b \in BadBatches}

BadMonthlyResponses ==
    {MonthsAnswered(first, rest) : first \in BadStockDays, rest \in {Thrown, [kind |-> "data", data |-> <<RowA>>]}}

NextBadRows ==
    \/ \E code \in Codes :
         stockMonthlyData = Null /\ chartInflight = <<>> /\ showChartModal(code)
    \/ \E i \in 1..MaxInFlight, apiData \in BadStockDays :
         showChartModalResume(i, apiData, 31)
    \/ \E i \in 1..MaxInFlight, monthlyResponses \in BadMonthlyResponses :
         yearlyResume(i, monthlyResponses)
    \/ \E newType \in {"monthly", "yearly"} : setChartDataType(newType)
    \/ \E i \in 1..MaxInFlight, monthlyResponses \in BadMonthlyResponses :
         watchResume(i, monthlyResponses)
    \/ hideChartModal

SpecBadRows == InitModal /\ [][NextBadRows]_vars

\* The backend's tracked stocks on their own, under requests of any client
NextTracked ==
    \/ trackedStocksGet
    \/ \E stockCode \in ServerCodes \cup {""} : trackedStocksPost(stockCode)
    \/ \E stockCode \in ServerCodes : trackedStocksDelete(stockCode)
    \/ \E i \in 1..MaxInFlight, err \in BOOLEAN : writeFileResume(i, err)
    \/ serverStockDataPost
    \/ \E i \in 1..MaxInFlight :
         \E apiData \in ServerApiDatas(ServerCodes) : serverStockDataResume(i, apiData)

SpecTracked == Init /\ [][NextTracked]_vars

\* The poller after the component is mounted, both codes tracked and
\* displayed: the interval, the add and remove buttons, the responses
NextMounted ==
    \/ setIntervalTick
    \/ \E code \in Codes : addStock(code)
    \/ \E i \in 1..MaxInFlight : addStockResume(i)
    \/ \E code \in Codes : removeStock(code)
    \/ \E i \in 1..MaxInFlight : fetchStockDataResume(i)

SpecMounted == InitModal /\ [][NextMounted]_vars

\* utils/api.ts on its own
NextRetry ==
    \/ \E n \in 0..MaxRetries : retryFetchCall(n)
    \/ checkBackendHealth
    \/ \E outcome \in Outcomes : retryFetchResume(outcome)
    \/ retryFetchRetry
    \/ retryFetchDone

SpecRetry == Init /\ [][NextRetry]_vars

\* Every request settles and every timer fires
SpecRetryLive ==
    /\ SpecRetry
    /\ WF_vars(\E outcome \in Outcomes : retryFetchResume(outcome))
    /\ WF_vars(retryFetchRetry)

\* POST /api/stock-data under requests for any of the codes
NextKeys ==
    \/ \E stockCodes \in StockCodesAsked : stockDataPost(stockCodes)
    \/ \E msgArray \in MsgArraysAsked(stockDataReq) : stockDataPostResume(msgArray)

SpecKeys == Init /\ [][NextKeys]_vars

\* The chart modal over a feed in which the exchange answers each stock with
\* that stock's own rows
RowOf(stockCode) ==
    [date |-> <<113, 5, 2>>,
     close |-> Close(IF stockCode = "2330" THEN 60000 ELSE 2500),
     change |-> Change("+", 100)]

StockDaysOf(stockCode) == {Thrown, [kind |-> "data", data |-> <<RowOf(stockCode)>>]}

MonthlyResponsesOf(stockCode) ==
    {MonthsAnswered(first, Thrown) : first \in StockDaysOf(stockCode)}

NextOwner ==
    \/ \E code \in Codes : showChartModal(code)
    \/ \E i \in 1..Len(chartInflight) :
         \E apiData \in StockDaysOf(chartInflight[i].stockCode) :
           showChartModalResume(i, apiData, 31)
    \/ \E i \in 1..Len(chartInflight) :
         \E monthlyResponses \in MonthlyResponsesOf(chartInflight[i].stockCode) :
           yearlyResume(i, monthlyResponses)
    \/ \E newType \in {"monthly", "yearly"} : setChartDataType(newType)
    \/ \E i \in 1..Len(chartInflight) :
         \E monthlyResponses \in MonthlyResponsesOf(chartInflight[i].stockCode) :
           watchResume(i, monthlyResponses)
    \/ hideChartModal

SpecOwner == InitModal /\ [][NextOwner]_vars

----------------------------------------------------------------------------
(* Quote reconciler: the claims *)

CarriedFields == {"InstantPrice", "PriceChange", "ChangePercentage"}

IsNumeric(s) == s.k = "dec"

\* The stockData objects the pending fetchStockData calls can be answered with
PendingFetches ==
    UNION { {apiResponse.stockData : apiResponse \in {r \in ApiResponses[stockCodes] : r.ok}} :
            stockCodes \in {inflight[j].stockCodes :
                              j \in {k \in 1..Len(inflight) : inflight[k].op = "fetchStockData"}} }

\* The snapshot fetchStockData would write now for the response `fetched`
Reconcile(fetched, trading) == ProcessedData(stockData, fetched, trackedStocks, trading)

\* The step in which a fetchStockData call processed an OK response
Reconciled == poll'.status = "ok" /\ Len(inflight') = Len(inflight) - 1

\* `previous` holds a value other than "N/A" for the field
HoldsValue(previous, code, f) ==
    code \in DOMAIN previous /\ previous[code][f] \notin {NA, Undefined}

\* C1: carry-forward rule. For every snapshot the poller reaches, every
\* response a pending poll can get and either value of the trading flag, each
\* of instantPrice, priceChange and changePercentage of every code of the new
\* snapshot is the previous value when the flag is true, the fetched value is
\* "N/A" and the previous snapshot holds a non-"N/A" value, and the fetched
\* value in every other case.
C1_CarryForward ==
    \A fetched \in PendingFetches, trading \in BOOLEAN :
        LET result == Reconcile(fetched, trading)
        IN  \A code \in DOMAIN result, f \in CarriedFields :
                result[code][f] =
                    IF trading /\ fetched[code][f] = NA /\ HoldsValue(stockData, code, f)
                    THEN stockData[code][f]
                    ELSE fetched[code][f]

\* A poll wrote 600.00 for 2330 although its response said "N/A": carried forward.
C1_Witness ==
    /\ poll.status = "ok"
    /\ "2330" \in DOMAIN poll.fetched /\ "2330" \in DOMAIN stockData
    /\ poll.fetched["2330"].InstantPrice = NA
    /\ stockData["2330"].InstantPrice = Dec(60000)

\* C2 (as claimed): at a wall-clock time outside the 8:30-14:00 window, a
\* field the response reports as "N/A" is "N/A" in the snapshot the poller
\* writes, whatever the previous snapshot held.
C2_NoCarryOutsideWindow ==
    \A now \in Clock, fetched \in PendingFetches :
        ~InTradingWindow(now) =>
            LET result == Reconcile(fetched, isTradingHours)
            IN  \A code \in DOMAIN result, f \in CarriedFields :
                    fetched[code][f] = NA => result[code][f] = NA

\* C3: yesterdayClose is never carried forward. For every reachable snapshot,
\* pending response and flag value, yesterdayClose of every code of the new
\* snapshot is the fetched yesterdayClose.
C3_YesterdayCloseFresh ==
    \A fetched \in PendingFetches, trading \in BOOLEAN :
        LET result == Reconcile(fetched, trading)
        IN  \A code \in DOMAIN result :
                result[code].YesterdayClose = fetched[code].YesterdayClose

\* The displayed close of 2330 is 590.00, and a pending poll can be answered
\* without a close, which the poll then writes as "N/A".
C3_Witness ==
    /\ poll.status = "ok"
    /\ "2330" \in DOMAIN stockData
    /\ stockData["2330"].YesterdayClose = Dec(59000)
    /\ \E fetched \in PendingFetches :
         /\ "2330" \in DOMAIN Reconcile(fetched, isTradingHours)
         /\ fetched["2330"].YesterdayClose = NA
         /\ Reconcile(fetched, isTradingHours)["2330"].YesterdayClose = NA

\* C4: in every step in which a poll processes a response, the keys of the
\* snapshot it writes are exactly the codes that are both in the watch-list
\* and in the response.
C4_KeySet ==
    [][Reconciled =>
        DOMAIN stockData' = Range(trackedStocks) \cap DOMAIN poll'.fetched]_vars

\* A poll dropped 2330 (no longer tracked) from a response that had it, and
\* kept 2881.
C4_Witness ==
    /\ poll.status = "ok"
    /\ DOMAIN poll.fetched = {"2330", "2881"}
    /\ DOMAIN stockData = {"2881"}
    /\ Range(trackedStocks) = {"2881"}

\* C5 (as claimed): every displayed record whose instantPrice and
\* yesterdayClose are both numeric has priceChange = instantPrice -
\* yesterdayClose and (for a non-zero close) changePercentage = 100 *
\* priceChange / yesterdayClose; every other record has neither.
QuoteRecordConsistent(r) ==
    IF IsNumeric(r.InstantPrice) /\ IsNumeric(r.YesterdayClose)
    THEN /\ r.PriceChange = Dec(r.InstantPrice.v - r.YesterdayClose.v)
         /\ r.YesterdayClose.v # 0 =>
              r.ChangePercentage =
                Pct(RoundDiv(10000 * (r.InstantPrice.v - r.YesterdayClose.v), r.YesterdayClose.v))
    ELSE /\ r.PriceChange \in {NA, Undefined}
         /\ r.ChangePercentage \in {NA, Undefined}

C5_QuoteRecordInvariant ==
    \A code \in DOMAIN stockData : QuoteRecordConsistent(stockData[code])

\* C6 (as claimed): when the fetched instantPrice is "N/A", the previous one
\* is numeric and the fetched yesterdayClose is numeric and non-zero, the new
\* priceChange and changePercentage are computed from the carried-forward
\* price and the fetched close.
C6_DerivedFromCarried ==
    \A fetched \in PendingFetches :
        LET result == Reconcile(fetched, isTradingHours)
        IN  \A code \in DOMAIN result :
                ( /\ isTradingHours
                  /\ fetched[code].InstantPrice = NA
                  /\ code \in DOMAIN stockData
                  /\ IsNumeric(stockData[code].InstantPrice)
                  /\ IsNumeric(fetched[code].YesterdayClose)
                  /\ fetched[code].YesterdayClose.v # 0 )
                => LET price == stockData[code].InstantPrice.v
                       close == fetched[code].YesterdayClose.v
                   IN  /\ result[code].InstantPrice = Dec(price)
                       /\ result[code].PriceChange = Dec(price - close)
                       /\ result[code].ChangePercentage =
                            Pct(RoundDiv(10000 * (price - close), close))

\* The quotes of the response the last poll processed (records carrying only
\* an error message are not quotes)
FetchedQuotes ==
    IF poll.status = "ok"
    THEN {poll.fetched[code] : code \in {c \in DOMAIN poll.fetched : poll.fetched[c].Code # ""}}
    ELSE {}

\* C7 (as claimed): every quote the backend returns whose yesterdayClose is
\* zero or not a number has priceChange and changePercentage "N/A".
C7_DegenerateCloseBothNA ==
    \A q \in FetchedQuotes :
        (~IsNumeric(q.YesterdayClose) \/ q.YesterdayClose.v = 0) =>
            q.PriceChange = NA /\ q.ChangePercentage = NA

\* C7 (amended): every quote the backend returns whose yesterdayClose is not
\* a number has priceChange and changePercentage "N/A"; one whose
\* yesterdayClose is zero has changePercentage "N/A", and its priceChange is
\* the instantPrice itself (instantPrice - 0) when that is numeric and "N/A"
\* when it is not.
C7_DegenerateClose ==
    \A q \in FetchedQuotes :
        /\ ~IsNumeric(q.YesterdayClose) => q.PriceChange = NA /\ q.ChangePercentage = NA
        /\ (IsNumeric(q.YesterdayClose) /\ q.YesterdayClose.v = 0) =>
              /\ q.ChangePercentage = NA
              /\ q.PriceChange = IF IsNumeric(q.InstantPrice)
                                 THEN Dec(q.InstantPrice.v) ELSE NA

\* The last response had a quote with a zero close and a numeric price, and
\* the poll displays it: priceChange 600.00, changePercentage "N/A".
C7_Witness ==
    /\ \E q \in FetchedQuotes :
         /\ q.YesterdayClose = Dec(0)
         /\ q.InstantPrice = Dec(60000)
    /\ "2330" \in DOMAIN stockData
    /\ stockData["2330"].YesterdayClose = Dec(0)
    /\ stockData["2330"].PriceChange = Dec(60000)
    /\ stockData["2330"].ChangePercentage = NA

\* No field of the response is "N/A"
Clean(fetched) ==
    \A code \in DOMAIN fetched :
        \A f \in CarriedFields \cup {"YesterdayClose"} : fetched[code][f] # NA

\* C8: reconcile is idempotent on clean fetches. For every reachable
\* snapshot and watch-list, either flag value and every response without an
\* "N/A" field, reconciling the result with the same response again gives the
\* same result.
C8_Idempotent ==
    \A fetched \in PendingFetches, trading \in BOOLEAN :
        Clean(fetched) =>
            LET once == ProcessedData(stockData, fetched, trackedStocks, trading)
            IN  ProcessedData(once, fetched, trackedStocks, trading) = once

\* A clean response is pending for a snapshot that differs from it, and the
\* last poll wrote a snapshot.
C8_Witness ==
    /\ poll.status = "ok"
    /\ "2330" \in DOMAIN stockData
    /\ stockData["2330"].InstantPrice = NA
    /\ \E fetched \in PendingFetches :
         /\ Clean(fetched)
         /\ "2330" \in DOMAIN Reconcile(fetched, isTradingHours)
         /\ Reconcile(fetched, isTradingHours)["2330"].InstantPrice = Dec(60000)

\* C9 (as claimed): a displayed record holds "N/A" (or a carried-forward
\* value), never an absent value, for each of instantPrice, priceChange,
\* changePercentage and yesterdayClose.
C9_MissingFieldsAreNA ==
    \A code \in DOMAIN stockData :
        \A f \in CarriedFields \cup {"YesterdayClose"} :
            stockData[code][f] # Undefined

----------------------------------------------------------------------------
(* Empty inputs *)

\* The series of the chart drawn is empty.
EmptySeries ==
    /\ stockChartInstance # NoChart
    /\ stockChartInstance.labels = <<>>
    /\ stockChartInstance.percentageChangeData = <<>>
    /\ stockChartInstance.closingPriceData = <<>>

\* C10: Empty inputs give empty results without an error: a poll with an empty
\* watch-list leaves an empty snapshot, and a chart handler that fetched an
\* empty row batch (every upstream answer with fields and data, no row at all)
\* hit no fetch error, stored a body with no rows, and, where it rendered a
\* shown modal of that type, drew an empty series without a render error.
C10_EmptyInputsNoError ==
    /\ poll.status = "empty" => stockData = EmptyObject
    /\ chartLog.emptyBatch =>
         /\ ~chartLog.fetchError
         /\ LET stored == IF chartLog.op = "yearly" THEN stockYearlyData ELSE stockMonthlyData
            IN  stored.kind = "data" /\ stored.data = <<>>
         /\ (chartLog.rendered /\ isChartModalVisible
             /\ chartDataType = (IF chartLog.op = "yearly" THEN "yearly" ELSE "monthly"))
              => ~chartLog.renderError /\ EmptySeries

----------------------------------------------------------------------------
(* Scheduling of the poller *)

\* The fetchStockData calls between their request and their write
PendingPolls == {i \in 1..Len(inflight) : inflight[i].op = "fetchStockData"}

\* C11 (as claimed): reconciliations are serialized: in every reachable state
\* of the poller at most one fetchStockData call is between issuing its
\* request and writing the snapshot.
C11_Serialized == Cardinality(PendingPolls) <= 1

----------------------------------------------------------------------------
(* Time-series normalizer: the claims *)

\* normalizeDate as claimed: the year plus 1911 below the threshold, kept as
\* it is from 1911 on
NormalizeDate(date) ==
    <<IF date[1] < 1911 THEN date[1] + 1911 ELSE date[1], date[2], date[3]>>

\* The rows the front end has stored (and sorted) for the two chart types
StoredRows ==
    Range(stockMonthlyData.data) \cup Range(stockYearlyData.data)

\* C12 (as claimed): for every row the front end sorted, the date the sort
\* comparator compares is the normalized date (era years below 1911 plus
\* 1911, Western years kept), and the month the yearly series groups it under
\* is the year and month of that same date.
C12_NormalizeDate ==
    \A row \in StoredRows :
        /\ convertMinguoToGregorian(row.date) = NormalizeDate(row.date)
        /\ MonthKey(row) = <<NormalizeDate(row.date)[1], NormalizeDate(row.date)[2]>>

\* The place of row k of `rows` in the stable ascending order by normalized
\* date: after every row of an earlier date and every earlier row of its date
Rank(rows, k) ==
    1 + Cardinality({j \in 1..Len(rows) :
                       LessThan(NormalizeDate(rows[j].date), NormalizeDate(rows[k].date))})
      + Cardinality({j \in 1..(k - 1) :
                       NormalizeDate(rows[j].date) = NormalizeDate(rows[k].date)})

\* `out` is `rows` sorted ascending by normalized date, equal dates in input order
SortedAscending(rows, out) ==
    /\ Len(out) = Len(rows)
    /\ \A k \in 1..Len(rows) : out[Rank(rows, k)] = rows[k]

\* The batch the monthly endpoint passed through in the last handler
MonthlyBatch == chartLog.input[1].data

FetchedMonthly ==
    chartLog.op = "monthly" /\ chartLog.input[1].kind = "data"

\* C13 (as claimed): the rows stored from a monthly batch, whose dates may be
\* in era or Western form, are the rows of the batch in ascending order of
\* their normalized calendar date, rows of equal date in their input order.
C13_SortAscending ==
    FetchedMonthly => SortedAscending(MonthlyBatch, stockMonthlyData.data)

\* The rows the months of the last yearly fetch answered, in fetch order
YearlyBatch == Concat(chartLog.input)

\* The chart on screen is the yearly chart of the rows just fetched
DrawnYearly ==
    /\ chartLog.op = "yearly"
    /\ chartLog.rendered
    /\ ~chartLog.renderError
    /\ stockChartInstance.type = "yearly"

NormalizedMonth(row) == <<NormalizeDate(row.date)[1], NormalizeDate(row.date)[2]>>

\* `row` has the latest calendar date among the rows of its month
LatestOfMonth(rows, row) ==
    \A k \in 1..Len(rows) :
        NormalizedMonth(rows[k]) = NormalizedMonth(row)
            => ~LessThan(NormalizeDate(row.date), NormalizeDate(rows[k].date))

\* C14 (as claimed): the yearly series has exactly one entry per distinct
\* "YYYY/MM" month of the fetched rows, in ascending month order, and the
\* entry of a month is computed from a row of that month with the latest
\* calendar date, whatever order the rows were fetched in.
C14_BuildYearly ==
    DrawnYearly =>
        LET labels == stockChartInstance.labels
        IN  /\ Range(labels) = {NormalizedMonth(YearlyBatch[k]) : k \in 1..Len(YearlyBatch)}
            /\ \A i, j \in 1..Len(labels) : i < j => MonthKeyLess(labels[i], labels[j])
            /\ \A i \in 1..Len(labels) :
                 \E k \in 1..Len(YearlyBatch) :
                     /\ NormalizedMonth(YearlyBatch[k]) = labels[i]
                     /\ LatestOfMonth(YearlyBatch, YearlyBatch[k])
                     /\ stockChartInstance.closingPriceData[i] = Num(YearlyBatch[k].close.v)

\* A chart was drawn by the last handler; it shows the stored rows of its type
Drawn == chartLog.rendered /\ ~chartLog.renderError

DrawnMonthly == Drawn /\ stockChartInstance.type = "monthly"

\* The signed change a change string stands for: its magnitude, negated when
\* the string has a "-"
SignedChange(priceChangeStr) ==
    IF priceChangeStr.sign = "-" THEN -priceChangeStr.v ELSE priceChangeStr.v

Signed(priceChangeStr) == priceChangeStr.sign \in {"+", "-", " "}

\* pct (hundredths of a percent) is 100 * change / (close - change) rounded to
\* two decimals, and 0 when close - change is 0
IsDerivedPercentage(pct, close, change) ==
    LET yesterdayClose == close - change
    IN  IF yesterdayClose = 0 THEN pct = 0
        ELSE 2 * Abs(pct * yesterdayClose - 10000 * change) <= Abs(yesterdayClose)

\* C15 (as claimed): the monthly series has one entry per stored row, in the
\* rows' order: its label is the "MM/DD" of the row's normalized date, its
\* closing price the row's closing price with the thousands separators
\* stripped ("1,025.00" gives 1025), and its percentage the one derived from
\* that closing price and the row's signed change.
C15_BuildMonthly ==
    DrawnMonthly =>
        LET rows == stockMonthlyData.data
            chart == stockChartInstance
        IN  /\ Len(chart.labels) = Len(rows)
            /\ \A i \in 1..Len(rows) :
                 /\ chart.labels[i] = <<NormalizeDate(rows[i].date)[2], NormalizeDate(rows[i].date)[3]>>
                 /\ chart.closingPriceData[i] = Num(rows[i].close.v)
                 /\ Signed(rows[i].change) =>
                      /\ ~isNaN(chart.percentageChangeData[i])
                      /\ IsDerivedPercentage(chart.percentageChangeData[i].n,
                                             rows[i].close.v, SignedChange(rows[i].change))

\* The calendar date of each entry of the series on screen: the normalized
\* date of its row for a monthly chart (one entry per stored row), the month
\* of its label for a yearly one
EntryDates ==
    IF stockChartInstance.type = "yearly"
    THEN [i \in 1..Len(stockChartInstance.labels) |->
            <<stockChartInstance.labels[i][1], stockChartInstance.labels[i][2], 0>>]
    ELSE [i \in 1..Len(stockChartInstance.labels) |->
            NormalizeDate(stockMonthlyData.data[i].date)]

\* C16 (as claimed): every series drawn, monthly or yearly, is strictly
\* ascending by calendar date: no two consecutive entries have the same or a
\* decreasing date, also when the fetched batch has several rows for one date.
C16_StrictlyAscending ==
    Drawn =>
        \A i \in 1..(Len(EntryDates) - 1) : LessThan(EntryDates[i], EntryDates[i + 1])

\* C17 (as claimed): the price change computed for a point is the magnitude
\* of the row's change string with the sign of the string: positive for a
\* leading "+" (and for no sign), negated for a string with a "-".
C17_ParsePriceChange ==
    Drawn =>
        LET priceChanges == chartLog.priceChanges
        IN  IF stockChartInstance.type = "yearly"
            THEN \A i \in 1..Len(priceChanges) :
                   \E row \in Range(stockYearlyData.data) :
                       /\ MonthKey(row) = stockChartInstance.labels[i]
                       /\ Signed(row.change) => priceChanges[i] = Num(SignedChange(row.change))
            ELSE /\ Len(priceChanges) = Len(stockMonthlyData.data)
                 /\ \A i \in 1..Len(priceChanges) :
                      LET row == stockMonthlyData.data[i]
                      IN  Signed(row.change) => priceChanges[i] = Num(SignedChange(row.change))

\* A chart of three rows, "+2.00", "-2.30" and "+10.00"
C17_Witness ==
    /\ DrawnMonthly
    /\ stockMonthlyData.data = <<RowA, RowB, RowC>>
    /\ chartLog.priceChanges = <<Num(200), Num(-230), Num(1000)>>

\* C18 (as claimed): the percentage of a point, from its closing price and
\* signed change: yesterdayClose is their difference; the percentage is 0
\* when yesterdayClose is 0, else 100 * change / yesterdayClose rounded to two
\* decimals (102 and 2 give 2.00).
C18_DerivePercentage ==
    Drawn =>
        \A i \in 1..Len(stockChartInstance.labels) :
            LET closingPrice      == stockChartInstance.closingPriceData[i]
                actualPriceChange == chartLog.priceChanges[i]
                percentageChange  == stockChartInstance.percentageChangeData[i]
            IN  (~isNaN(closingPrice) /\ ~isNaN(actualPriceChange)) =>
                    /\ ~isNaN(percentageChange)
                    /\ IsDerivedPercentage(percentageChange.n, closingPrice.n,
                                           actualPriceChange.n)

\* A chart with a point of close 102.00 and change +2.00, drawn as 2.00 %,
\* and a point of close 10.00 and change +10.00 (yesterdayClose 0), drawn as 0
C18_Witness ==
    /\ DrawnMonthly
    /\ stockMonthlyData.data = <<RowA, RowB, RowC>>
    /\ stockChartInstance.closingPriceData[1] = Num(10200)
    /\ chartLog.priceChanges[1] = Num(200)
    /\ stockChartInstance.percentageChangeData[1] = Num(200)
    /\ stockChartInstance.closingPriceData[3] = chartLog.priceChanges[3]
    /\ stockChartInstance.percentageChangeData[3] = Num(0)

\* C19 (as claimed): after a monthly batch was fetched, the completeness
\* flag is set exactly when the batch has fewer rows than the month of the
\* fetch has days, for every row count and every length of month.
C19_CompletenessFlag ==
    FetchedMonthly =>
        (isMonthlyDataIncomplete <=> Len(MonthlyBatch) < chartLog.lastDayOfMonth)

\* A batch of as many rows as the month has days: the flag is not set
C19_Witness ==
    /\ FetchedMonthly
    /\ Len(MonthlyBatch) = 31
    /\ chartLog.lastDayOfMonth = 31
    /\ ~isMonthlyDataIncomplete

\* How many times `row` is in `rows`
Count(rows, row) == Cardinality({k \in 1..Len(rows) : rows[k] = row})

\* The last handler got the answer of a yearly fetch in which the request of
\* some month failed and that of another month succeeded
PartialFailure ==
    /\ chartLog.op = "yearly"
    /\ \E m \in 1..Len(chartLog.input) : chartLog.input[m].kind = "throw"
    /\ \E m \in 1..Len(chartLog.input) : chartLog.input[m].kind # "throw"

\* C20 (as claimed): when some of the per-month fetches of the yearly view
\* fail and at least one succeeds, no error is returned and the yearly data
\* is made of exactly the rows of the months that succeeded.
C20_PartialFailure ==
    PartialFailure =>
        /\ ~chartLog.fetchError
        /\ stockYearlyData.kind = "data"
        /\ Len(stockYearlyData.data) = Len(YearlyBatch)
        /\ \A row \in Range(YearlyBatch) :
             Count(stockYearlyData.data, row) = Count(YearlyBatch, row)

\* Some row of `rows` has a date that is not three slash-separated parts
HasMalformedDate(rows) == \E k \in 1..Len(rows) : Len(rows[k].date) # 3

\* The stored rows the chart on screen was drawn from
DrawnRows ==
    IF stockChartInstance.type = "yearly" THEN stockYearlyData.data ELSE stockMonthlyData.data

\* C21 (as claimed): a batch with a row whose date does not split into three
\* parts is stored whole, that row's date unchanged, and is charted without
\* an error, as a monthly and as a yearly chart.
C21_MalformedDate ==
    /\ (FetchedMonthly /\ HasMalformedDate(MonthlyBatch)) =>
          /\ ~chartLog.fetchError
          /\ Len(stockMonthlyData.data) = Len(MonthlyBatch)
          /\ \A row \in Range(MonthlyBatch) :
               Count(stockMonthlyData.data, row) = Count(MonthlyBatch, row)
    /\ (chartLog.rendered /\ stockChartInstance.type # "null" /\ HasMalformedDate(DrawnRows)) =>
          ~chartLog.renderError /\ ~chartLog.dateError

\* The closing price or the change of the row is not a number
Unparseable(row) == row.close.nan \/ ~Signed(row.change)

\* C22 (as claimed): in the monthly chart of a batch with a row whose closing
\* price or change is not a number, there is an entry for every row and no
\* error; the entry of every other row has the row's closing price and the
\* percentage derived from it, and the entry of the bad row is not-a-number.
C22_BadRowIsolated ==
    (DrawnMonthly /\ \E row \in Range(stockMonthlyData.data) : Unparseable(row)) =>
        LET rows  == stockMonthlyData.data
            chart == stockChartInstance
        IN  /\ Len(chart.labels) = Len(rows)
            /\ \A i \in 1..Len(rows) :
                 IF Unparseable(rows[i])
                 THEN /\ isNaN(chart.percentageChangeData[i])
                      /\ rows[i].close.nan => isNaN(chart.closingPriceData[i])
                 ELSE /\ chart.closingPriceData[i] = Num(rows[i].close.v)
                      /\ ~isNaN(chart.percentageChangeData[i])
                      /\ IsDerivedPercentage(chart.percentageChangeData[i].n,
                                             rows[i].close.v, SignedChange(rows[i].change))

\* The two codes are equal when letter case is ignored
SameCode(a, b) == a = b \/ {a, b} = {"00632R", "00632r"}

\* C23: in every step in which POST /api/tracked-stocks handles a code, a
\* code that is tracked, compared case-insensitively, is answered 400 and
\* the tracked codes stay as they are; any other code is accepted and the
\* tracked codes become the previous ones plus exactly that code.
C23_AddRejectsTracked ==
    [][ (serverReply'.op = "post" /\ serverReply'.status \in {0, 400}
                                  /\ serverReply'.stockCode # "") =>
          IF \E code \in DOMAIN serverStockData : SameCode(code, serverReply'.stockCode)
          THEN serverReply'.status = 400 /\ serverStockData' = serverStockData
          ELSE /\ serverReply'.status = 0
               /\ DOMAIN serverStockData' =
                    DOMAIN serverStockData \cup {serverReply'.stockCode} ]_vars

\* "00632r" was refused while "00632R" is tracked
C23_Witness ==
    /\ serverReply = Reply("post", "00632r", 400)
    /\ "00632R" \in DOMAIN serverStockData
    /\ "00632r" \notin DOMAIN serverStockData

\* C24 (as claimed): no step of POST /api/stock-data adds or removes a
\* tracked code, whatever add and delete requests ran while it was waiting
\* for the exchange.
C24_StockDataKeepsTracked ==
    [][ serverReply'.op = "stock-data" =>
          DOMAIN serverStockData' = DOMAIN serverStockData ]_vars

C26_FailedPollKeepsSnapshot ==
    [][ (/\ poll'.status = "error"
         /\ \E i \in 1..Len(inflight) : /\ inflight[i].op = "fetchStockData"
                                        /\ inflight' = RemoveAt(inflight, i)) =>
          stockData' = stockData /\ lastFetchTime' = lastFetchTime ]_vars

\* A poll failed while quotes and a fetch time were on display
C26_Witness ==
    /\ poll.status = "error"
    /\ DOMAIN stockData = {"2330", "2881"}
    /\ lastFetchTime = SysTime

\* The step processes the OK response of a pending poll
SuccessfulPoll ==
    /\ poll'.status = "ok"
    /\ \E i \in 1..Len(inflight) : /\ inflight[i].op = "fetchStockData"
                                   /\ inflight' = RemoveAt(inflight, i)

\* C27 (as claimed): isTradingHours being true, in every step that processes
\* a successful poll whose response holds a tracked code, a snapshot that
\* showed an InstantPrice other than "N/A" for the code is followed by a
\* snapshot that shows an InstantPrice other than "N/A" for it.
C27_NoFlicker ==
    [][ (SuccessfulPoll /\ isTradingHours) =>
          \A code \in Range(trackedStocks) \cap DOMAIN poll'.fetched :
            (code \in DOMAIN stockData /\ stockData[code].InstantPrice # NA) =>
               (code \in DOMAIN stockData' /\ stockData'[code].InstantPrice # NA) ]_vars

\* The rows of the stored response, if any, are those the exchange gives for
\* stockCode
FetchedFor(chartData, stockCode) ==
    \A k \in 1..Len(chartData.data) : chartData.data[k] = RowOf(stockCode)

\* C28 (as claimed): whenever the chart has just been rendered for the
\* selected stock, the rows of stockMonthlyData and of stockYearlyData are
\* rows fetched for selectedStockCode.
C28_DataOfSelectedStock ==
    (chartLog.rendered /\ isChartModalVisible /\ selectedStockCode # "") =>
        /\ FetchedFor(stockMonthlyData, selectedStockCode)
        /\ FetchedFor(stockYearlyData, selectedStockCode)

\* C29 (as claimed): in the results answered by POST /api/stock-data every
\* quote of the msgArray is stored under the code it is a quote of, which is
\* one of the codes asked; so no two quotes share a key, also when one code
\* asked is a substring of another.
C29_KeyedByCodeAsked ==
    \A k \in 1..Len(stockDataRes.msgArray) :
        LET stockInfo == stockDataRes.msgArray[k]
        IN  /\ stockInfo.c \in DOMAIN stockDataRes.results
            /\ stockDataRes.results[stockInfo.c] = Quote(stockInfo)

\* The attempts made so far, none of them OK
AllFailed(outcomes) == \A k \in 1..Len(outcomes) : outcomes[k] # "ok"

\* C30: a retryFetch call with retries = n never has issued more than n + 1
\* requests; when it has returned, the last attempt was the first OK one and
\* no request was issued after it; when it has thrown, n + 1 attempts were
\* made and none was OK; checkBackendHealth has returned true exactly when
\* its retryFetch returned and false exactly when it threw; and, every
\* request settling and every delay elapsing, a call that is waiting for a
\* response eventually returns or throws.
C30_RetryBounded ==
    /\ [](/\ retry.requests <= retry.n + 1
          /\ retry.pc = "returned" =>
                /\ retry.requests = Len(retry.outcomes)
                /\ retry.outcomes[Len(retry.outcomes)] = "ok"
                /\ AllFailed(SubSeq(retry.outcomes, 1, Len(retry.outcomes) - 1))
          /\ retry.pc = "thrown" =>
                /\ retry.requests = retry.n + 1
                /\ Len(retry.outcomes) = retry.n + 1
                /\ AllFailed(retry.outcomes)
          /\ retry.caller = "checkBackendHealth" =>
                /\ retry.health = "true" <=> retry.pc = "returned"
                /\ retry.health = "false" <=> retry.pc = "thrown"
                /\ retry.health = "true" <=> ~AllFailed(retry.outcomes))
    /\ (retry.pc = "fetching" ~> retry.pc \in {"returned", "thrown"})

\* checkBackendHealth returned true on the last of its four attempts
C30_Witness ==
    /\ retry.caller = "checkBackendHealth"
    /\ retry.pc = "returned"
    /\ retry.health = "true"
    /\ retry.outcomes = <<"reject", "nonok", "nonok", "ok">>

\* A call with retries = 2 threw after three failed attempts
C30_WitnessThrown ==
    /\ retry.caller = "retryFetch"
    /\ retry.pc = "thrown"
    /\ retry.outcomes = <<"nonok", "reject", "nonok">>

====
